---- MODULE Spec2Model ----
(***************************************************************************)
(* Model of ChunkDownloader (src/downloader/chunk_downloader.py): the      *)
(* orchestrator thread running download(), one thread per segment running  *)
(* download_segment(), and a caller thread that may call cancel().         *)
(* The filesystem is the temp directory, its part files and the output     *)
(* file; the manager is the log of the status notifications it received.   *)
(*                                                                         *)
(* Spec is the whole object under any use. PlanSpec runs the segment       *)
(* planner alone, ProgressSpec the worker threads with _update_progress    *)
(* taken step by step, FairSpec and OrchestratorFairSpec one call of       *)
(* download() under fair scheduling.                                       *)
(*                                                                         *)
(* Filesystem removals (unlink, rmtree) fail only through the program's    *)
(* own concurrent writers; creating the temp directory may fail for        *)
(* outside reasons, which download() handles by returning early; a part    *)
(* file may reach merge_parts shorter than its worker wrote it.            *)
(***************************************************************************)
EXTENDS Integers, Sequences, FiniteSets, TLC

\* ------------------------------------------------------------------ bounds
\* Largest num_connections a job is created with.
MaxConn == 2
\* Number of segment requests the server fails during one call of download()
\* (no answer, an error status, a broken stream, a body shorter or longer than
\* the range).
MaxFaults == 3

\* The planner specification plans files of 1 .. MaxPlanExtra bytes above the
\* multi-connection threshold, for 2 .. MaxPlanConn connections.
MaxPlanExtra == 12
MaxPlanConn == 5

\* ------------------------------------------------------- program constants
\* download_segment: retries = 3
retries == 3
\* download: MIN_SIZE_FOR_MULTI_MB = 10
MIN_SIZE_FOR_MULTI_MB == 10

MiB == 1024 * 1024
Threshold == MIN_SIZE_FOR_MULTI_MB * MiB

\* chunk_size the job is created with (a constructor argument).
chunk_size == 4 * MiB

\* Sizes a caller passes as known_size and a server reports as content-length:
\* unknown, below the threshold, the threshold itself, above it.
Sizes == {0, 2 * MiB, Threshold, Threshold + 2}

\* HTTP status codes a request is answered with (0: no response at all, a
\* connection error or timeout).
ErrorStatuses == {0, 401, 403, 416, 500}

\* Bytes a part file has lost, through something outside the program, by the
\* time merge_parts copies it.
Losses == {0, 1, 2}

Segs == 0 .. (MaxConn - 1)

None == "None"

Min(a, b) == IF a < b THEN a ELSE b

VARIABLES
    \* ---- ChunkDownloader fields
    num_connections,  \* self.num_connections
    total_size,       \* self.total_size
    downloaded,       \* self.downloaded
    error,            \* self.error (None or the kind of message)
    cancel_event,     \* self.cancel_event.is_set()
    connection_type,  \* self.connection_type: "N/A", "Single", "Multi"
    part_files,       \* self.part_files: sequence of segment indexes
    threads,          \* self.threads: set of started segment indexes
    \* ---- download(): locals and position
    pc,               \* position of the orchestrator thread
    success,          \* local success
    supports_ranges,  \* local supports_ranges
    expected_final_size,
    segments,         \* local segments: sequence of <<index, start, end>>
    active_threads,   \* local active_threads
    cleanup_success,  \* argument of the running _cleanup_temp call
    cleanup_ret,      \* where the running _cleanup_temp call returns to
    body_left,        \* fallback: bytes the server has yet to send
    \* ---- download_segment(), one per segment
    wpc,              \* position of each worker thread
    current_try,      \* local current_try
    written,          \* local bytes_written_this_segment
    chunk,            \* the chunk read and not yet written
    \* ---- caller thread
    upc,              \* position inside cancel()
    \* ---- filesystem
    temp_dir,         \* the temp directory exists
    part,             \* size of each part file, -1 when it does not exist
    output_exists,    \* a file exists at output_path
    output_size,      \* bytes the current call has written to it
    output_parts,     \* the part indexes the current call copied into it
    \* ---- manager
    status_log,       \* statuses sent to _update_download_status since
                      \* download() was last entered
    final_status,     \* status carried by the final notification
    final_error,      \* error carried by the final notification
    final_progress,   \* progress carried by it, in whole percent; -1: not sent
    final_speed,      \* speed carried by it; -1: not sent
    final_url,        \* local final_url: what the probe returned as the URL
    \* ---- _update_progress(), taken step by step (ProgressSpec only)
    lock,             \* self.lock: the thread holding it, -1 when free
    loaded,           \* the value of self.downloaded each thread's += read
    \* ---- server
    faults,           \* segment requests failed since download() was entered
    \* ---- history (read by the properties only)
    hist

vars == << num_connections, total_size, downloaded, error, cancel_event,
           connection_type, part_files, threads, pc, success, supports_ranges,
           expected_final_size, segments, active_threads, cleanup_success,
           cleanup_ret, body_left, wpc, current_try, written, chunk, upc,
           temp_dir, part, output_exists, output_size,
           output_parts, status_log, final_status, final_error,
           final_progress, final_speed, final_url, lock, loaded, faults,
           hist >>



\* ------------------------------------------------------------------ helpers

\* self.is_cancelled
is_cancelled == cancel_event

\* self.error or <default>
ErrorOr(default) == IF error # None THEN error ELSE default

\* Lines 460-476 without lines 466-467, which stretch the last segment to the
\* end of the file.
RECURSIVE PlanFromWithoutLastRule(_, _, _, _, _)
PlanFromWithoutLastRule(i, current_byte, segment_size, total, n) ==
    IF i >= n \/ current_byte >= total THEN << >>
    ELSE LET start_byte == current_byte
             end_byte == Min(current_byte + segment_size - 1, total - 1)
         IN IF start_byte <= end_byte /\ end_byte < total
            THEN << <<i, start_byte, end_byte>> >>
                 \o PlanFromWithoutLastRule(i + 1, end_byte + 1, segment_size,
                                            total, n)
            ELSE << >>

\* <<index, start_byte, end_byte>> of the segments planned for total bytes and
\* n connections, from segment i on, current_byte being the next unassigned byte.
RECURSIVE PlanFrom(_, _, _, _, _)
PlanFrom(i, current_byte, segment_size, total, n) ==
    IF i >= n \/ current_byte >= total THEN << >>
    ELSE LET start_byte == current_byte
             end_byte == IF i = n - 1 THEN total - 1
                         ELSE Min(current_byte + segment_size - 1, total - 1)
         IN IF start_byte <= end_byte /\ end_byte < total
            THEN << <<i, start_byte, end_byte>> >>
                 \o PlanFrom(i + 1, end_byte + 1, segment_size, total, n)
            ELSE << >>

\* Line 455 rounding the segment size up instead of down.
PlanSegmentsRoundedUp(total, n) ==
    PlanFrom(0, 0, (total + n - 1) \div n, total, n)

\* Lines 455-476 planning no segment at all.
PlanNoSegments(total, n) == << >>

\* Lines 455-476 without lines 456-457, which replace a segment size of 0 by
\* the total size.
PlanSegmentsKeepingZeroSize(total, n) == PlanFrom(0, 0, total \div n, total, n)

\* Lines 455-476: segment_size = total // n, the total itself when that is 0.
PlanSegments(total, n) ==
    LET segment_size == IF total \div n = 0 THEN total ELSE total \div n
    IN PlanFrom(0, 0, segment_size, total, n)

\* expected_size of segment i: (end_byte - start_byte) + 1
ExpectedSize(i) == (segments[i + 1][3] - segments[i + 1][2]) + 1

\* t.is_alive(): started and not yet ended
IsAlive(i) == wpc[i] \notin {"idle", "done"}

\* Truth value of a requests.Response in "response and ...": Response.__bool__
\* is Response.ok, false for every 4xx and 5xx status.
ResponseTruthy(status) == status > 0 /\ status < 400

\* Line 242: elif response and response.status_code == 416
TakesRangeNotSatisfiableBranch(status) ==
    ResponseTruthy(status) /\ status = 416

\* iter_content yielding chunks that carry no bytes.
NextChunkEmpty(left) == 0

\* The chunk response.iter_content(chunk_size) yields next when the body still
\* has left bytes to deliver.
NextChunk(left) == Min(chunk_size, left)

\* ------------------------------------------------------------------ history
\* reported is the content-length of the response the probe or the fallback
\* GET has just received, -1 once it has been dealt with.
Hist0 == [ exhausted         |-> [i \in Segs |-> FALSE],
           failed_with_bytes |-> FALSE,
           seg_ok            |-> [i \in Segs |-> FALSE],
           saw416            |-> [i \in Segs |-> FALSE],
           worker_set        |-> [i \in Segs |-> FALSE],
           merge_called      |-> FALSE,
           output_opened     |-> FALSE,
           wrote_bytes       |-> FALSE,
           user_called       |-> FALSE,
           user_cancel_mid   |-> FALSE,
           sent_running      |-> 0,
           requests          |-> [i \in Segs |-> 0],
           first_ok          |-> -1,
           merged_size       |-> -1,
           passed            |-> 0,
           mode_sets         |-> 0,
           gets              |-> 0,
           fallback_result   |-> None,
           reported          |-> -1,
           mkdir_failed      |-> FALSE ]

\* ------------------------------------------------------------------ initial
\* __init__: a fresh object. The disk may hold an output file and a temp
\* directory of an earlier run with the same download_id.
Init ==
    /\ num_connections \in 1 .. MaxConn
    /\ total_size \in {0, Threshold + 2}
    /\ downloaded = 0
    /\ error = None
    /\ cancel_event = FALSE
    /\ connection_type = "N/A"
    /\ part_files = << >>
    /\ threads = {}
    /\ pc = "notstarted"
    /\ success = FALSE
    /\ supports_ranges = FALSE
    /\ expected_final_size = 0
    /\ segments = << >>
    /\ active_threads = {}
    /\ cleanup_success = FALSE
    /\ cleanup_ret = "final"
    /\ body_left = 0
    /\ wpc = [i \in Segs |-> "idle"]
    /\ current_try = [i \in Segs |-> 0]
    /\ written = [i \in Segs |-> 0]
    /\ chunk = [i \in Segs |-> 0]
    /\ upc = "idle"
    /\ temp_dir \in BOOLEAN
    /\ part = [i \in Segs |-> -1]
    /\ output_exists \in BOOLEAN
    /\ output_size = 0
    /\ output_parts = << >>
    /\ status_log = << >>
    /\ final_status = None
    /\ final_error = None
    /\ final_progress = -1
    /\ final_speed = -1
    /\ final_url = None
    /\ lock = -1
    /\ loaded = [i \in Segs |-> 0]
    /\ faults = 0
    /\ hist = Hist0

\* ------------------------------------------------------------------ cancel()
\* Line 72: if not self.is_cancelled
CancelGuard == ~is_cancelled

\* Line 75: self.error = "Download cancelled by user"
CancelError == "CancelledByUser"

\* The job is running: download() was entered and has not returned.
Running == pc \notin {"notstarted", "returned"}

\* Lines 75-78: record the error and tell the manager.
CancelRecord ==
    /\ error' = CancelError
    /\ status_log' = Append(status_log, "cancelled")
    /\ hist' = [hist EXCEPT !.sent_running = IF Running THEN @ + 1 ELSE @]

\* ---------------------------------------------------------- _cleanup_temp()
\* Enter _cleanup_temp(success=s), returning to position ret.
CallCleanup(s, ret) ==
    /\ cleanup_success' = s
    /\ cleanup_ret' = ret
    /\ pc' = "cleanup_scan"

\* Lines 82-84, first half of shutil.rmtree: list the directory and unlink the
\* entries listed.
CleanupScan ==
    /\ pc = "cleanup_scan"
    /\ IF temp_dir
       THEN /\ part' = [i \in Segs |-> -1]
            /\ pc' = "cleanup_rmdir"
       ELSE /\ pc' = "cleanup_output"
            /\ UNCHANGED part
    /\ UNCHANGED << num_connections, total_size, downloaded, error,
                    cancel_event, connection_type, part_files, threads,
                    success, supports_ranges, expected_final_size, segments,
                    active_threads, cleanup_success, cleanup_ret, body_left,
                    wpc, current_try, written, chunk, upc, temp_dir,
                    output_exists, output_size, output_parts, status_log,
                    final_status, final_error, final_progress, final_speed,
                    final_url, lock, loaded, faults, hist >>

\* Whether rmdir of the temp directory succeeds: only on an empty directory.
RmdirSucceeds == \A i \in Segs : part[i] = -1

\* Lines 84-87, second half of shutil.rmtree: rmdir. A part file created since
\* the listing makes it fail; the exception is caught and only printed.
CleanupRmdir ==
    /\ pc = "cleanup_rmdir"
    /\ temp_dir' = IF RmdirSucceeds THEN FALSE ELSE temp_dir
    /\ pc' = "cleanup_output"
    /\ UNCHANGED << num_connections, total_size, downloaded, error,
                    cancel_event, connection_type, part_files, threads,
                    success, supports_ranges, expected_final_size, segments,
                    active_threads, cleanup_success, cleanup_ret, body_left,
                    wpc, current_try, written, chunk, upc, part,
                    output_exists, output_size, output_parts, status_log,
                    final_status, final_error, final_progress, final_speed,
                    final_url, lock, loaded, faults, hist >>

\* Line 90 with the test of success inverted.
RemovesOutputInverted(s) == s /\ output_exists

\* Line 90: if not success and self.output_path.exists()
RemovesOutput(s) == ~s /\ output_exists

\* Lines 89-95: unlink the output file unless the download succeeded.
CleanupOutput ==
    /\ pc = "cleanup_output"
    /\ IF RemovesOutput(cleanup_success)
       THEN /\ output_exists' = FALSE
            /\ output_size' = 0
            /\ output_parts' = << >>
       ELSE UNCHANGED << output_exists, output_size, output_parts >>
    /\ pc' = cleanup_ret
    /\ UNCHANGED << num_connections, total_size, downloaded, error,
                    cancel_event, connection_type, part_files, threads,
                    success, supports_ranges, expected_final_size, segments,
                    active_threads, cleanup_success, cleanup_ret, body_left,
                    wpc, current_try, written, chunk, upc, temp_dir, part,
                    status_log, final_status, final_error, final_progress,
                    final_speed, final_url, lock, loaded, faults, hist >>

\* ---------------------------------------------------------------- download()
\* download() is called on a fresh object, or again once it has returned and
\* the threads it started have ended.
Callable ==
    \/ pc = "notstarted"
    \/ pc = "returned" /\ \A i \in Segs : ~IsAlive(i)

\* download() clearing the cancellation event on entry.
EventClearedOnEntry == FALSE

\* Lines 400-405 do not touch self.cancel_event: it stays as it was.
EventAfterEntry == cancel_event

\* Lines 400-405: enter download() with fresh locals and reset downloaded and
\* error. Nothing else of the object is reset: not cancel_event, total_size,
\* connection_type, threads or part_files. The manager's log, the history,
\* the server's fault budget and the record of what the output file holds
\* start over for the new call.
Start ==
    /\ Callable
    /\ success' = FALSE
    /\ downloaded' = 0
    /\ error' = None
    /\ cancel_event' = EventAfterEntry
    /\ pc' = "precheck"
    /\ supports_ranges' = FALSE
    /\ expected_final_size' = 0
    /\ segments' = << >>
    /\ active_threads' = {}
    /\ cleanup_success' = FALSE
    /\ cleanup_ret' = "final"
    /\ body_left' = 0
    /\ wpc' = [i \in Segs |-> "idle"]
    /\ current_try' = [i \in Segs |-> 0]
    /\ written' = [i \in Segs |-> 0]
    /\ chunk' = [i \in Segs |-> 0]
    /\ output_size' = 0
    /\ output_parts' = << >>
    /\ faults' = 0
    /\ status_log' = << >>
    /\ final_status' = None
    /\ final_error' = None
    /\ final_progress' = -1
    /\ final_speed' = -1
    /\ final_url' = None
    /\ hist' = [Hist0 EXCEPT !.user_called = hist.user_called,
                             !.worker_set = hist.worker_set]
    /\ UNCHANGED << num_connections, total_size, connection_type, part_files,
                    threads, upc, temp_dir, part, output_exists, lock,
                    loaded >>

\* Lines 408-410: remove a temp directory left by an earlier run.
PreCheck ==
    /\ pc = "precheck"
    /\ IF temp_dir
       THEN CallCleanup(FALSE, "probe")
       ELSE /\ pc' = "probe"
            /\ UNCHANGED << cleanup_success, cleanup_ret >>
    /\ UNCHANGED << num_connections, total_size, downloaded, error,
                    cancel_event, connection_type, part_files, threads,
                    success, supports_ranges, expected_final_size, segments,
                    active_threads, body_left, wpc, current_try, written,
                    chunk, upc, temp_dir, part, output_exists, output_size,
                    output_parts, status_log, final_status, final_error,
                    final_progress, final_speed, final_url, lock, loaded,
                    faults, hist >>

\* Lines 128-131 and 348-355 without the test of self.total_size: the
\* reported length replaces a known total.
SizeAfterOverwriting(size) == IF size > 0 THEN size ELSE total_size

\* total_size after a response reporting content-length size (lines 128-131
\* and 348-355): taken only while the total is unknown.
SizeAfter(size) == IF total_size <= 0 /\ size > 0 THEN size ELSE total_size

\* A failed probe reporting range support all the same.
ProbeFailureAssumesRanges == TRUE

\* Lines 143, 154 and 158: a failed probe returns no range support.
ProbeFailureRanges == FALSE

\* Lines 140-158: the probe failed with error e (the error unchanged when
\* nothing is recorded); it returns (self.initial_url, False).
ProbeFailed(e) ==
    /\ final_url' = "initial_url"
    /\ supports_ranges' = ProbeFailureRanges
    /\ error' = e
    /\ total_size' = total_size
    /\ hist' = hist

\* Lines 413 and 97-158, _get_range_support_and_url: the HEAD request answers
\* with or without "accept-ranges: bytes" and with some content-length, and
\* the probe returns the URL of the response; or it times out, or fails with
\* a connection error or an error status, or raises something unexpected.
Probe ==
    /\ pc = "probe"
    /\ \/ \E accept \in BOOLEAN, head_size \in Sizes :
            /\ final_url' = "response_url"
            /\ supports_ranges' = accept
            /\ total_size' = SizeAfter(head_size)
            /\ error' = error
            /\ hist' = [hist EXCEPT !.reported = head_size]
       \/ ProbeFailed("HeadTimeout")
       \/ ProbeFailed(error)
       \/ ProbeFailed("HeadUnexpected")
    /\ pc' = "decide"
    /\ UNCHANGED << num_connections, downloaded, cancel_event,
                    connection_type, part_files, threads, success,
                    expected_final_size, segments, active_threads,
                    cleanup_success, cleanup_ret, body_left, wpc,
                    current_try, written, chunk, upc, temp_dir, part,
                    output_exists, output_size, output_parts, status_log,
                    final_status, final_error, final_progress, final_speed,
                    lock, loaded, faults >>

\* Lines 423-428 without the test of supports_ranges.
UseMultiConnectionWithoutRanges ==
    /\ num_connections > 1
    /\ total_size > 0
    /\ total_size > Threshold

\* Lines 423-428 with the size compared by >= instead of >.
UseMultiConnectionAtThreshold ==
    /\ supports_ranges
    /\ num_connections > 1
    /\ total_size > 0
    /\ total_size >= Threshold

\* Lines 423-428: use_multi_connection
UseMultiConnection ==
    /\ supports_ranges
    /\ num_connections > 1
    /\ total_size > 0
    /\ total_size > Threshold

\* Lines 423-434 and 485: choose the strategy.
Decide ==
    /\ pc = "decide"
    /\ expected_final_size' = total_size
    /\ pc' = IF UseMultiConnection THEN "mkdir" ELSE "fallback"
    /\ hist' = [hist EXCEPT !.reported = -1]
    /\ UNCHANGED << num_connections, total_size, downloaded, error,
                    cancel_event, connection_type, part_files, threads,
                    success, supports_ranges, segments, active_threads,
                    cleanup_success, cleanup_ret, body_left, wpc,
                    current_try, written, chunk, upc, temp_dir, part,
                    output_exists, output_size, output_parts, status_log,
                    final_status, final_error, final_progress, final_speed,
                    final_url, lock, loaded, faults >>

\* Line 436 left out: the mode stays what it was.
MultiModeNotSet == connection_type

\* Line 436: self.connection_type = f"Multi ({self.num_connections})"
MultiMode == "Multi"

\* Lines 447-450 going on to the single-stream download instead of returning.
TempDirFailedFallsBack ==
    /\ error' = "TempDirFailed"
    /\ hist' = [hist EXCEPT !.mode_sets = @ + 1, !.mkdir_failed = TRUE]
    /\ pc' = "fallback"
    /\ UNCHANGED << cleanup_success, cleanup_ret, temp_dir, part, part_files >>

\* Lines 447-450: the temp directory could not be created; the error is
\* recorded and download() returns False, through finally.
TempDirFailed ==
    /\ error' = "TempDirFailed"
    /\ hist' = [hist EXCEPT !.mode_sets = @ + 1, !.mkdir_failed = TRUE]
    /\ CallCleanup(FALSE, "final")
    /\ UNCHANGED << temp_dir, part, part_files >>

\* Lines 436-452: announce the mode and create a clean temp directory, or
\* fail to.
MakeTempDir ==
    /\ pc = "mkdir"
    /\ connection_type' = MultiMode
    /\ \/ /\ temp_dir' = TRUE
          /\ part' = [i \in Segs |-> -1]
          /\ part_files' = << >>
          /\ error' = error
          /\ pc' = "plan"
          /\ hist' = [hist EXCEPT !.mode_sets = @ + 1]
          /\ UNCHANGED << cleanup_success, cleanup_ret >>
       \/ TempDirFailed
    /\ UNCHANGED << num_connections, total_size, downloaded, cancel_event,
                    threads, success, supports_ranges, expected_final_size,
                    segments, active_threads, body_left, wpc, current_try,
                    written, chunk, upc, output_exists, output_size,
                    output_parts, status_log, final_status, final_error,
                    final_progress, final_speed, final_url, lock, loaded,
                    faults >>

\* Lines 455-482: plan the segments; with none, fall back to single stream.
Plan ==
    /\ pc = "plan"
    /\ LET planned == PlanSegments(total_size, num_connections)
       IN /\ segments' = planned
          /\ part_files' = [k \in 1 .. Len(planned) |-> planned[k][1]]
          /\ IF planned = << >>
             THEN /\ error' = "NoSegments"
                  /\ pc' = "fallback"
             ELSE /\ error' = error
                  /\ pc' = "spawn"
    /\ threads' = {}
    /\ UNCHANGED << num_connections, total_size, downloaded, cancel_event,
                    connection_type, success, supports_ranges,
                    expected_final_size, active_threads, cleanup_success,
                    cleanup_ret, body_left, wpc, current_try, written, chunk,
                    upc, temp_dir, part, output_exists, output_size,
                    output_parts, status_log, final_status, final_error,
                    final_progress, final_speed, final_url, lock, loaded,
                    faults, hist >>

\* The segments not yet given a thread.
Unstarted == { segments[k][1] : k \in 1 .. Len(segments) } \ threads

\* Lines 502-510: start one thread per segment, stopping at a cancellation;
\* then active_threads = list(self.threads).
Spawn ==
    /\ pc = "spawn"
    /\ IF Unstarted = {} \/ is_cancelled
       THEN /\ active_threads' = threads
            /\ pc' = "wait"
            /\ UNCHANGED << threads, wpc, current_try >>
       ELSE LET i == CHOOSE s \in Unstarted : \A t \in Unstarted : s <= t
            IN /\ threads' = threads \cup {i}
               /\ wpc' = [wpc EXCEPT ![i] = "loop"]
               /\ current_try' = [current_try EXCEPT ![i] = 0]
               /\ UNCHANGED << active_threads, pc >>
    /\ UNCHANGED << num_connections, total_size, downloaded, error,
                    cancel_event, connection_type, part_files, success,
                    supports_ranges, expected_final_size, segments,
                    cleanup_success, cleanup_ret, body_left, written, chunk,
                    upc, temp_dir, part, output_exists, output_size,
                    output_parts, status_log, final_status, final_error,
                    final_progress, final_speed, final_url, lock, loaded,
                    faults, hist >>

\* Line 519 keeping the threads that ended instead of those alive.
StillActiveInverted(ts) == { t \in ts : ~IsAlive(t) }

\* Line 519: [t for t in active_threads if t.is_alive()]
StillActive(ts) == { t \in ts : IsAlive(t) }

\* Lines 512-515 left out: the wait loop does not look at the cancellation.
WaitIgnoresCancel == FALSE

\* Line 512: if self.is_cancelled, tested on every round of the wait loop.
WaitSeesCancel == is_cancelled

\* Lines 511-519: poll until no thread is alive, or leave at a cancellation.
Wait ==
    /\ pc = "wait"
    /\ IF active_threads = {}
       THEN /\ pc' = "post"
            /\ UNCHANGED << error, active_threads >>
       ELSE IF WaitSeesCancel
            THEN /\ error' = ErrorOr("Cancelled")
                 /\ pc' = "post"
                 /\ UNCHANGED active_threads
            ELSE /\ active_threads' = StillActive(active_threads)
                 /\ UNCHANGED << error, pc >>
    /\ UNCHANGED << num_connections, total_size, downloaded, cancel_event,
                    connection_type, part_files, threads, success,
                    supports_ranges, expected_final_size, segments,
                    cleanup_success, cleanup_ret, body_left, wpc,
                    current_try, written, chunk, upc, temp_dir, part,
                    output_exists, output_size, output_parts, status_log,
                    final_status, final_error, final_progress, final_speed,
                    final_url, lock, loaded, faults, hist >>

\* Lines 527-531 without the comparison of the byte counts.
SizeCheckErrorSkipped == None

\* Lines 527-531: the error the post-download check records, if any.
SizeCheckError ==
    IF downloaded # expected_final_size /\ expected_final_size > 0
    THEN "MultiSizeMismatch" ELSE None

\* Lines 522-534: post-download checks.
PostCheck ==
    /\ pc = "post"
    /\ error' = IF is_cancelled \/ error # None THEN error ELSE SizeCheckError
    /\ pc' = "merge_check"
    /\ UNCHANGED << num_connections, total_size, downloaded, cancel_event,
                    connection_type, part_files, threads, success,
                    supports_ranges, expected_final_size, segments,
                    active_threads, cleanup_success, cleanup_ret, body_left,
                    wpc, current_try, written, chunk, upc, temp_dir, part,
                    output_exists, output_size, output_parts, status_log,
                    final_status, final_error, final_progress, final_speed,
                    final_url, lock, loaded, faults, hist >>

\* Line 537: if not self.error and not self.is_cancelled
MayMerge == error = None /\ ~is_cancelled

\* Lines 537-548: merge, or give up before merging.
MergeCheck ==
    /\ pc = "merge_check"
    /\ IF MayMerge
       THEN /\ pc' = "merge_start"
            /\ hist' = [hist EXCEPT !.merge_called = TRUE]
            /\ UNCHANGED << success, cleanup_success, cleanup_ret >>
       ELSE /\ success' = FALSE
            /\ CallCleanup(FALSE, "final")
            /\ UNCHANGED hist
    /\ UNCHANGED << num_connections, total_size, downloaded, error,
                    cancel_event, connection_type, part_files, threads,
                    supports_ranges, expected_final_size, segments,
                    active_threads, body_left, wpc, current_try, written,
                    chunk, upc, temp_dir, part, output_exists, output_size,
                    output_parts, status_log, final_status, final_error,
                    final_progress, final_speed, final_url, lock, loaded,
                    faults >>

\* ------------------------------------------------------------- merge_parts()
\* Line 283 sorting the part files by descending index.
RECURSIVE SortedPartsDescending(_)
SortedPartsDescending(s) ==
    IF s = {} THEN << >>
    ELSE LET m == CHOOSE x \in s : \A y \in s : x >= y
         IN << m >> \o SortedPartsDescending(s \ {m})

\* Line 283: the part files sorted by index.
RECURSIVE SortedParts(_)
SortedParts(s) ==
    IF s = {} THEN << >>
    ELSE LET m == CHOOSE x \in s : \A y \in s : x <= y
         IN << m >> \o SortedParts(s \ {m})

sorted_part_files == SortedParts({ part_files[k] : k \in 1 .. Len(part_files) })

\* merge_parts returned False with error e: lines 542-548, then finally.
MergeFailed(e) ==
    /\ error' = e
    /\ success' = FALSE
    /\ CallCleanup(FALSE, "final")

\* Lines 272-285: refuse an empty part list, else open the output file.
MergeStart ==
    /\ pc = "merge_start"
    /\ IF part_files = << >>
       THEN /\ MergeFailed(IF is_cancelled THEN ErrorOr("CancelledBeforeParts")
                           ELSE "NoParts")
            /\ UNCHANGED << output_exists, output_size, output_parts, hist >>
       ELSE /\ output_exists' = TRUE
            /\ output_size' = 0
            /\ output_parts' = << >>
            /\ hist' = [hist EXCEPT !.output_opened = TRUE]
            /\ pc' = "merge_copy"
            /\ UNCHANGED << error, success, cleanup_success, cleanup_ret >>
    /\ UNCHANGED << num_connections, total_size, downloaded, cancel_event,
                    connection_type, part_files, threads, supports_ranges,
                    expected_final_size, segments, active_threads, body_left,
                    wpc, current_try, written, chunk, upc, temp_dir, part,
                    status_log, final_status, final_error, final_progress,
                    final_speed, final_url, lock, loaded, faults >>

\* Lines 286-299: copy the next part file, as many bytes as it holds by now;
\* a missing one aborts the merge.
MergeCopy ==
    /\ pc = "merge_copy"
    /\ LET p == sorted_part_files[Len(output_parts) + 1]
       IN IF part[p] = -1
          THEN /\ MergeFailed(IF is_cancelled THEN ErrorOr("MergeAborted")
                              ELSE "MergeFailed")
               /\ UNCHANGED << output_size, output_parts >>
          ELSE /\ \E lost \in Losses :
                    /\ lost <= part[p]
                    /\ output_size' = output_size + (part[p] - lost)
               /\ output_parts' = Append(output_parts, p)
               /\ pc' = IF Len(output_parts) + 1 = Len(sorted_part_files)
                        THEN "merge_verify" ELSE "merge_copy"
               /\ UNCHANGED << error, success, cleanup_success, cleanup_ret >>
    /\ UNCHANGED << num_connections, total_size, downloaded, cancel_event,
                    connection_type, part_files, threads, supports_ranges,
                    expected_final_size, segments, active_threads, body_left,
                    wpc, current_try, written, chunk, upc, temp_dir, part,
                    output_exists, status_log, final_status, final_error,
                    final_progress, final_speed, final_url, lock, loaded,
                    faults, hist >>

\* Lines 303-309 left out: the merged size is not verified.
MergedSizeNotVerified == FALSE

\* Line 305: the merged size is off by more than the tolerated byte.
MergedSizeDiffers ==
    /\ total_size > 0
    /\ (output_size - total_size > 1 \/ total_size - output_size > 1)

\* Lines 301-311 and 539-541: verify the merged size; success ends the run.
MergeVerify ==
    /\ pc = "merge_verify"
    /\ IF MergedSizeDiffers
       THEN MergeFailed("MergedSizeDiffers")
       ELSE /\ success' = TRUE
            /\ CallCleanup(TRUE, "final")
            /\ UNCHANGED error
    /\ hist' = [hist EXCEPT !.merged_size = output_size]
    /\ UNCHANGED << num_connections, total_size, downloaded, cancel_event,
                    connection_type, part_files, threads, supports_ranges,
                    expected_final_size, segments, active_threads, body_left,
                    wpc, current_try, written, chunk, upc, temp_dir, part,
                    output_exists, output_size, output_parts, status_log,
                    final_status, final_error, final_progress, final_speed,
                    final_url, lock, loaded, faults >>

\* -------------------------------------------------------- fallback_download()
\* A fallback_download that, instead of returning False, issues its GET
\* again.
FallbackRetried(r, e) ==
    /\ success' = r
    /\ expected_final_size' = total_size'
    /\ error' = IF ~r /\ e = None THEN "SingleFailed" ELSE e
    /\ hist' = [hist EXCEPT
                  !.fallback_result = IF r THEN "True" ELSE "False",
                  !.gets = IF pc = "fb_request" THEN @ + 1 ELSE @,
                  !.reported = -1]
    /\ IF r
       THEN CallCleanup(r, "final")
       ELSE /\ pc' = "fb_request"
            /\ UNCHANGED << cleanup_success, cleanup_ret >>

\* fallback_download returned r with error e: lines 493-498, then finally.
FallbackReturn(r, e) ==
    /\ success' = r
    /\ expected_final_size' = total_size'
    /\ error' = IF ~r /\ e = None THEN "SingleFailed" ELSE e
    /\ hist' = [hist EXCEPT
                  !.fallback_result = IF r THEN "True" ELSE "False",
                  !.gets = IF pc = "fb_request" THEN @ + 1 ELSE @,
                  !.reported = -1]
    /\ CallCleanup(r, "final")

\* Lines 322-330: announce single-connection mode and reset the progress.
FallbackStart ==
    /\ pc = "fallback"
    /\ connection_type' = "Single"
    /\ downloaded' = 0
    /\ hist' = [hist EXCEPT !.mode_sets = @ + 1, !.passed = 0]
    /\ pc' = "fb_request"
    /\ UNCHANGED << num_connections, total_size, error, cancel_event,
                    part_files, threads, success, supports_ranges,
                    expected_final_size, segments, active_threads,
                    cleanup_success, cleanup_ret, body_left, wpc,
                    current_try, written, chunk, upc, temp_dir, part,
                    output_exists, output_size, output_parts, status_log,
                    final_status, final_error, final_progress, final_speed,
                    final_url, lock, loaded, faults >>

\* Lines 338-355 and 382-395: the GET request. It fails, or answers with some
\* content-length and a body of some length.
FallbackRequest ==
    /\ pc = "fb_request"
    /\ \/ /\ total_size' = total_size
          /\ FallbackReturn(FALSE, "FallbackRequest")
          /\ UNCHANGED body_left
       \/ \E get_size \in Sizes, body \in Sizes :
            /\ total_size' = SizeAfter(get_size)
            /\ body_left' = body
            /\ hist' = [hist EXCEPT !.gets = @ + 1, !.reported = get_size]
            /\ pc' = "fb_open"
            /\ UNCHANGED << success, expected_final_size, error,
                            cleanup_success, cleanup_ret >>
    /\ UNCHANGED << num_connections, downloaded, cancel_event,
                    connection_type, part_files, threads, supports_ranges,
                    segments, active_threads, wpc, current_try, written,
                    chunk, upc, temp_dir, part, output_exists, output_size,
                    output_parts, status_log, final_status, final_error,
                    final_progress, final_speed, final_url, lock, loaded,
                    faults >>

\* Lines 358-360: create the output directory and open the output file.
FallbackOpen ==
    /\ pc = "fb_open"
    /\ total_size' = total_size
    /\ \/ /\ output_exists' = TRUE
          /\ output_size' = 0
          /\ output_parts' = << >>
          /\ hist' = [hist EXCEPT !.output_opened = TRUE, !.reported = -1]
          /\ pc' = "fb_iter"
          /\ UNCHANGED << success, expected_final_size, error,
                          cleanup_success, cleanup_ret >>
       \/ /\ FallbackReturn(FALSE, "FallbackUnexpected")
          /\ UNCHANGED << output_exists, output_size, output_parts >>
    /\ UNCHANGED << num_connections, downloaded, cancel_event,
                    connection_type, part_files, threads, supports_ranges,
                    segments, active_threads, body_left, wpc, current_try,
                    written, chunk, upc, temp_dir, part, status_log,
                    final_status, final_error, final_progress, final_speed,
                    final_url, lock, loaded, faults >>

\* Lines 373-374: the warning a size mismatch leaves in self.error.
FallbackSizeError ==
    IF total_size > 0 /\ downloaded # total_size
    THEN "FallbackSizeMismatch" ELSE error

\* Lines 361 and 371-380: read the next chunk; the stream may break; at the
\* end of the body the download is reported as done.
FallbackIter ==
    /\ pc = "fb_iter"
    /\ total_size' = total_size
    /\ \/ /\ body_left > 0
          /\ pc' = "fb_check"
          /\ UNCHANGED << success, expected_final_size, error,
                          cleanup_success, cleanup_ret, hist >>
       \/ /\ body_left > 0
          /\ FallbackReturn(FALSE, "FallbackRequest")
       \/ /\ body_left = 0
          /\ FallbackReturn(TRUE, FallbackSizeError)
    /\ UNCHANGED << num_connections, downloaded, cancel_event,
                    connection_type, part_files, threads, supports_ranges,
                    segments, active_threads, body_left, wpc, current_try,
                    written, chunk, upc, temp_dir, part, output_exists,
                    output_size, output_parts, status_log, final_status,
                    final_error, final_progress, final_speed, final_url,
                    lock, loaded, faults >>

\* Lines 362-365: a cancellation seen before the write ends the stream.
FallbackCheck ==
    /\ pc = "fb_check"
    /\ total_size' = total_size
    /\ IF is_cancelled
       THEN FallbackReturn(FALSE, error)
       ELSE /\ pc' = "fb_write"
            /\ UNCHANGED << success, expected_final_size, error,
                            cleanup_success, cleanup_ret, hist >>
    /\ UNCHANGED << num_connections, downloaded, cancel_event,
                    connection_type, part_files, threads, supports_ranges,
                    segments, active_threads, body_left, wpc, current_try,
                    written, chunk, upc, temp_dir, part, output_exists,
                    output_size, output_parts, status_log, final_status,
                    final_error, final_progress, final_speed, final_url,
                    lock, loaded, faults >>

\* Lines 367-369: write the chunk and count it.
FallbackWrite ==
    /\ pc = "fb_write"
    /\ LET n == NextChunk(body_left)
       IN /\ output_size' = output_size + n
          /\ downloaded' = downloaded + n
          /\ body_left' = body_left - n
          /\ hist' = [hist EXCEPT !.wrote_bytes = TRUE, !.passed = @ + n]
    /\ pc' = "fb_iter"
    /\ UNCHANGED << num_connections, total_size, error, cancel_event,
                    connection_type, part_files, threads, success,
                    supports_ranges, expected_final_size, segments,
                    active_threads, cleanup_success, cleanup_ret, wpc,
                    current_try, written, chunk, upc, temp_dir, part,
                    output_exists, output_parts, status_log, final_status,
                    final_error, final_progress, final_speed, final_url,
                    lock, loaded, faults >>

\* ------------------------------------------------------------------ finally
\* Line 570: final_status
FinalStatus ==
    IF success THEN "completed"
    ELSE IF is_cancelled THEN "cancelled" ELSE "failed"

\* Line 572: the last-known progress downloaded / total_size * 100, in whole
\* percent (whole multiples of the total first, to keep the product small);
\* 0 when the total is unknown.
LastKnownProgress ==
    IF total_size > 0
    THEN (downloaded \div total_size) * 100
         + ((downloaded % total_size) * 100) \div total_size
    ELSE 0

\* Line 572 passed on without the cap of line 576.
FinalProgressUncapped == IF success THEN 100 ELSE LastKnownProgress

\* Lines 572 and 576: min(100.0, final_progress)
FinalProgress == Min(100, IF success THEN 100 ELSE LastKnownProgress)

\* Line 577: speed=0
FinalSpeed == 0

\* Lines 568-582: the final notification, then return.
Final ==
    /\ pc = "final"
    /\ status_log' = Append(status_log, FinalStatus)
    /\ final_status' = FinalStatus
    /\ final_error' = error
    /\ final_progress' = FinalProgress
    /\ final_speed' = FinalSpeed
    /\ hist' = [hist EXCEPT !.sent_running = @ + 1]
    /\ pc' = "returned"
    /\ UNCHANGED << num_connections, total_size, downloaded, error,
                    cancel_event, connection_type, part_files, threads,
                    success, supports_ranges, expected_final_size, segments,
                    active_threads, cleanup_success, cleanup_ret, body_left,
                    wpc, current_try, written, chunk, upc, temp_dir, part,
                    output_exists, output_size, output_parts, final_url,
                    lock, loaded, faults >>

\* --------------------------------------------------------- download_segment()
\* Line 203 without the test of the cancellation.
MayAttemptIgnoringCancel(i) == current_try[i] < retries

\* Line 203: while current_try < retries and not self.is_cancelled
MayAttempt(i) == current_try[i] < retries /\ ~is_cancelled

\* Line 203: start another attempt, or fall out of the loop and end.
WLoop(i) ==
    /\ wpc[i] = "loop"
    /\ wpc' = [wpc EXCEPT ![i] = IF MayAttempt(i) THEN "request" ELSE "done"]
    /\ hist' = [hist EXCEPT !.requests[i] = IF MayAttempt(i) THEN @ + 1 ELSE @]
    /\ UNCHANGED << num_connections, total_size, downloaded, error,
                    cancel_event, connection_type, part_files, threads, pc,
                    success, supports_ranges, expected_final_size, segments,
                    active_threads, cleanup_success, cleanup_ret, body_left,
                    current_try, written, chunk, upc, temp_dir, part,
                    output_exists, output_size, output_parts, status_log,
                    final_status, final_error, final_progress, final_speed,
                    final_url, lock, loaded, faults >>

\* Line 252 never true: a worker out of attempts just leaves its loop.
GivesUpOnlyOn416(i, status) == TakesRangeNotSatisfiableBranch(status)

\* Lines 235-258: a RequestException (answered with status, 0 for none) or a
\* ValueError ends the attempt. A taken 416 branch gives up at once; the last
\* try gives up; otherwise back off and loop.
GivesUp(i, status) ==
    TakesRangeNotSatisfiableBranch(status) \/ current_try[i] + 1 >= retries

\* Lines 245 and 253 left out: the worker gives up without recording why.
AttemptFailedUnrecorded(i, status) ==
    /\ current_try' = [current_try EXCEPT ![i] = current_try[i] + 1]
    /\ error' = error
    /\ wpc' = [wpc EXCEPT ![i] = IF GivesUp(i, status) THEN "cancel"
                                 ELSE "loop"]
    /\ hist' = [hist EXCEPT
                  !.exhausted[i] = current_try[i] + 1 >= retries
                                   /\ ~TakesRangeNotSatisfiableBranch(status),
                  !.failed_with_bytes = @ \/ (written[i] > 0
                                              /\ wpc[i] # "request"),
                  !.saw416[i] = @ \/ status = 416]

AttemptFailed(i, status) ==
    /\ current_try' = [current_try EXCEPT ![i] = current_try[i] + 1]
    /\ IF GivesUp(i, status)
       THEN /\ error' = IF TakesRangeNotSatisfiableBranch(status)
                        THEN "SegmentRangeNotSatisfiable"
                        ELSE "SegmentFailed"
            /\ wpc' = [wpc EXCEPT ![i] = "cancel"]
       ELSE /\ error' = error
            /\ wpc' = [wpc EXCEPT ![i] = "loop"]
    /\ hist' = [hist EXCEPT
                  !.exhausted[i] = current_try[i] + 1 >= retries
                                   /\ ~TakesRangeNotSatisfiableBranch(status),
                  !.failed_with_bytes = @ \/ (written[i] > 0
                                              /\ wpc[i] # "request"),
                  !.saw416[i] = @ \/ status = 416]

\* The server may fail one more segment request.
MayFail == faults < MaxFaults

\* Lines 207-214: the range request. The server answers with a body, or with
\* an error status, or not at all.
WRequest(i) ==
    /\ wpc[i] = "request"
    /\ \/ /\ wpc' = [wpc EXCEPT ![i] = "open"]
          /\ written' = [written EXCEPT ![i] = 0]
          /\ UNCHANGED << current_try, error, faults, hist >>
       \/ \E status \in ErrorStatuses :
            /\ MayFail
            /\ faults' = faults + 1
            /\ AttemptFailed(i, status)
            /\ UNCHANGED written
    /\ UNCHANGED << num_connections, total_size, downloaded, cancel_event,
                    connection_type, part_files, threads, pc, success,
                    supports_ranges, expected_final_size, segments,
                    active_threads, cleanup_success, cleanup_ret, body_left,
                    chunk, upc, temp_dir, part, output_exists, output_size,
                    output_parts, status_log, final_status, final_error,
                    final_progress, final_speed, final_url, lock, loaded >>

\* Lines 260-264: any other exception is recorded and cancels the job.
CriticalError(i) ==
    /\ error' = "SegmentCritical"
    /\ wpc' = [wpc EXCEPT ![i] = "cancel"]

\* Line 215: open the part file for writing. Without the temp directory the
\* open raises FileNotFoundError.
WOpen(i) ==
    /\ wpc[i] = "open"
    /\ IF temp_dir
       THEN /\ part' = [part EXCEPT ![i] = 0]
            /\ wpc' = [wpc EXCEPT ![i] = "iter"]
            /\ UNCHANGED error
       ELSE /\ CriticalError(i)
            /\ UNCHANGED part
    /\ UNCHANGED << num_connections, total_size, downloaded, cancel_event,
                    connection_type, part_files, threads, pc, success,
                    supports_ranges, expected_final_size, segments,
                    active_threads, cleanup_success, cleanup_ret, body_left,
                    current_try, written, chunk, upc, temp_dir,
                    output_exists, output_size, output_parts, status_log,
                    final_status, final_error, final_progress, final_speed,
                    final_url, lock, loaded, faults, hist >>

\* Line 228 left out: whatever the body held counts as the segment.
SizeNotVerified(i) == TRUE

\* Lines 227-228: bytes_written_this_segment equals expected_size
SizeMatches(i) == written[i] = ExpectedSize(i)

\* Lines 216 and 226-233: read the next chunk of the range, or one chunk past
\* its end from a server that ignores the end; or the body ends, at its
\* length, past it or short of it, and the size is verified: a mismatch
\* raises ValueError; or the stream breaks.
WIter(i) ==
    /\ wpc[i] = "iter"
    /\ \/ /\ written[i] < ExpectedSize(i)
          /\ chunk' = [chunk EXCEPT ![i] = NextChunk(ExpectedSize(i) - written[i])]
          /\ wpc' = [wpc EXCEPT ![i] = "check"]
          /\ UNCHANGED << current_try, error, hist, faults >>
       \/ /\ written[i] = ExpectedSize(i)
          /\ MayFail
          /\ faults' = faults + 1
          /\ chunk' = [chunk EXCEPT ![i] = chunk_size]
          /\ wpc' = [wpc EXCEPT ![i] = "check"]
          /\ UNCHANGED << current_try, error, hist >>
       \/ /\ written[i] < ExpectedSize(i) => MayFail
          /\ faults' = IF written[i] < ExpectedSize(i) THEN faults + 1
                        ELSE faults
          /\ IF SizeMatches(i)
             THEN /\ wpc' = [wpc EXCEPT ![i] = "done"]
                  /\ hist' = [hist EXCEPT
                                !.seg_ok[i] = TRUE,
                                !.first_ok = IF @ = -1 THEN i ELSE @]
                  /\ UNCHANGED << current_try, error >>
             ELSE AttemptFailed(i, 0)
          /\ UNCHANGED chunk
       \/ /\ written[i] <= ExpectedSize(i)
          /\ MayFail
          /\ faults' = faults + 1
          /\ AttemptFailed(i, 0)
          /\ UNCHANGED chunk
    /\ UNCHANGED << num_connections, total_size, downloaded, cancel_event,
                    connection_type, part_files, threads, pc, success,
                    supports_ranges, expected_final_size, segments,
                    active_threads, cleanup_success, cleanup_ret, body_left,
                    written, upc, temp_dir, part, output_exists, output_size,
                    output_parts, status_log, final_status, final_error,
                    final_progress, final_speed, final_url, lock, loaded >>

\* Lines 217-219: a cancellation seen before the write ends the thread.
WCheck(i) ==
    /\ wpc[i] = "check"
    /\ wpc' = [wpc EXCEPT ![i] = IF is_cancelled THEN "done" ELSE "write"]
    /\ UNCHANGED << num_connections, total_size, downloaded, error,
                    cancel_event, connection_type, part_files, threads, pc,
                    success, supports_ranges, expected_final_size, segments,
                    active_threads, cleanup_success, cleanup_ret, body_left,
                    current_try, written, chunk, upc, temp_dir, part,
                    output_exists, output_size, output_parts, status_log,
                    final_status, final_error, final_progress, final_speed,
                    final_url, lock, loaded, faults, hist >>

\* Lines 160-163: self.downloaded += chunk_len, under the lock.
AddDownloaded(n) == downloaded + n

\* Lines 222-224: write the chunk and count it, _update_progress taken as one
\* step (ProgressSpec takes it apart). The bytes reach the part file's name
\* only while the file has not been unlinked under the open handle.
WWrite(i) ==
    /\ wpc[i] = "write"
    /\ part' = [part EXCEPT ![i] = IF @ = -1 THEN -1 ELSE @ + chunk[i]]
    /\ written' = [written EXCEPT ![i] = @ + chunk[i]]
    /\ downloaded' = AddDownloaded(chunk[i])
    /\ hist' = [hist EXCEPT !.wrote_bytes = TRUE, !.passed = @ + chunk[i]]
    /\ wpc' = [wpc EXCEPT ![i] = "iter"]
    /\ UNCHANGED << num_connections, total_size, error, cancel_event,
                    connection_type, part_files, threads, pc, success,
                    supports_ranges, expected_final_size, segments,
                    active_threads, cleanup_success, cleanup_ret, body_left,
                    current_try, chunk, upc, temp_dir, output_exists,
                    output_size, output_parts, status_log, final_status,
                    final_error, final_progress, final_speed, final_url,
                    lock, loaded, faults >>

\* ------------------------------------------- _update_progress(), step by step
\* Lines 222-224: write the chunk, count it for the segment and call
\* _update_progress(bytes_written).
WWriteFile(i) ==
    /\ wpc[i] = "write"
    /\ part' = [part EXCEPT ![i] = IF @ = -1 THEN -1 ELSE @ + chunk[i]]
    /\ written' = [written EXCEPT ![i] = @ + chunk[i]]
    /\ hist' = [hist EXCEPT !.wrote_bytes = TRUE, !.passed = @ + chunk[i]]
    /\ wpc' = [wpc EXCEPT ![i] = "update_lock"]
    /\ UNCHANGED << num_connections, total_size, downloaded, error,
                    cancel_event, connection_type, part_files, threads, pc,
                    success, supports_ranges, expected_final_size, segments,
                    active_threads, cleanup_success, cleanup_ret, body_left,
                    current_try, chunk, upc, temp_dir, output_exists,
                    output_size, output_parts, status_log, final_status,
                    final_error, final_progress, final_speed, final_url,
                    lock, loaded, faults >>

\* Line 162 left out: the body runs without the lock.
LockNotNeeded == TRUE

\* Line 162: with self.lock, entered only while no thread holds the lock.
LockFree == lock = -1

\* Line 162: acquire self.lock.
UpdateLock(i) ==
    /\ wpc[i] = "update_lock"
    /\ LockFree
    /\ lock' = i
    /\ wpc' = [wpc EXCEPT ![i] = "update_load"]
    /\ UNCHANGED << num_connections, total_size, downloaded, error,
                    cancel_event, connection_type, part_files, threads, pc,
                    success, supports_ranges, expected_final_size, segments,
                    active_threads, cleanup_success, cleanup_ret, body_left,
                    current_try, written, chunk, upc, temp_dir, part,
                    output_exists, output_size, output_parts, status_log,
                    final_status, final_error, final_progress, final_speed,
                    final_url, loaded, faults, hist >>

\* Line 163, self.downloaded += chunk_len: read self.downloaded.
UpdateLoad(i) ==
    /\ wpc[i] = "update_load"
    /\ loaded' = [loaded EXCEPT ![i] = downloaded]
    /\ wpc' = [wpc EXCEPT ![i] = "update_store"]
    /\ UNCHANGED << num_connections, total_size, downloaded, error,
                    cancel_event, connection_type, part_files, threads, pc,
                    success, supports_ranges, expected_final_size, segments,
                    active_threads, cleanup_success, cleanup_ret, body_left,
                    current_try, written, chunk, upc, temp_dir, part,
                    output_exists, output_size, output_parts, status_log,
                    final_status, final_error, final_progress, final_speed,
                    final_url, lock, faults, hist >>

\* Line 168: the manager is notified when the update interval has passed
\* (due) or the byte count has reached the total.
NotificationDue(due, count) == due \/ count = total_size

\* Lines 163-192: store the sum; then either call the manager, still inside
\* the with block, or leave the block, which releases the lock.
UpdateStore(i) ==
    /\ wpc[i] = "update_store"
    /\ downloaded' = loaded[i] + chunk[i]
    /\ \E due \in BOOLEAN :
         IF NotificationDue(due, downloaded')
         THEN /\ wpc' = [wpc EXCEPT ![i] = "update_notify"]
              /\ UNCHANGED lock
         ELSE /\ wpc' = [wpc EXCEPT ![i] = "iter"]
              /\ lock' = -1
    /\ UNCHANGED << num_connections, total_size, error, cancel_event,
                    connection_type, part_files, threads, pc, success,
                    supports_ranges, expected_final_size, segments,
                    active_threads, cleanup_success, cleanup_ret, body_left,
                    current_try, written, chunk, upc, temp_dir, part,
                    output_exists, output_size, output_parts, status_log,
                    final_status, final_error, final_progress, final_speed,
                    final_url, loaded, faults, hist >>

\* Lines 187-192: manager._update_download_status returns; the with block
\* ends and releases the lock.
UpdateNotify(i) ==
    /\ wpc[i] = "update_notify"
    /\ lock' = -1
    /\ wpc' = [wpc EXCEPT ![i] = "iter"]
    /\ UNCHANGED << num_connections, total_size, downloaded, error,
                    cancel_event, connection_type, part_files, threads, pc,
                    success, supports_ranges, expected_final_size, segments,
                    active_threads, cleanup_success, cleanup_ret, body_left,
                    current_try, written, chunk, upc, temp_dir, part,
                    output_exists, output_size, output_parts, status_log,
                    final_status, final_error, final_progress, final_speed,
                    final_url, loaded, faults, hist >>

\* Lines 246, 254, 263 with line 72: self.cancel() called by a worker tests
\* the event; nothing is held between the test and what follows it.
WCancel(i) ==
    /\ wpc[i] = "cancel"
    /\ wpc' = [wpc EXCEPT ![i] = IF CancelGuard THEN "cancel_set" ELSE "done"]
    /\ UNCHANGED << num_connections, total_size, downloaded, error,
                    cancel_event, connection_type, part_files, threads, pc,
                    success, supports_ranges, expected_final_size, segments,
                    active_threads, cleanup_success, cleanup_ret, body_left,
                    current_try, written, chunk, upc, temp_dir, part,
                    output_exists, output_size, output_parts, status_log,
                    final_status, final_error, final_progress, final_speed,
                    final_url, lock, loaded, faults, hist >>

\* Lines 73-74 in a worker's cancel(): set the event.
WCancelSet(i) ==
    /\ wpc[i] = "cancel_set"
    /\ cancel_event' = TRUE
    /\ wpc' = [wpc EXCEPT ![i] = "cancel_record"]
    /\ hist' = [hist EXCEPT !.worker_set[i] = @ \/ ~cancel_event]
    /\ UNCHANGED << num_connections, total_size, downloaded, error,
                    connection_type, part_files, threads, pc, success,
                    supports_ranges, expected_final_size, segments,
                    active_threads, cleanup_success, cleanup_ret, body_left,
                    current_try, written, chunk, upc, temp_dir, part,
                    output_exists, output_size, output_parts, status_log,
                    final_status, final_error, final_progress, final_speed,
                    final_url, lock, loaded, faults >>

\* Lines 75-78 in a worker's cancel(), then the worker returns.
WCancelRecord(i) ==
    /\ wpc[i] = "cancel_record"
    /\ CancelRecord
    /\ wpc' = [wpc EXCEPT ![i] = "done"]
    /\ UNCHANGED << num_connections, total_size, downloaded, cancel_event,
                    connection_type, part_files, threads, pc, success,
                    supports_ranges, expected_final_size, segments,
                    active_threads, cleanup_success, cleanup_ret, body_left,
                    current_try, written, chunk, upc, temp_dir, part,
                    output_exists, output_size, output_parts, final_status,
                    final_error, final_progress, final_speed, final_url,
                    lock, loaded, faults >>

\* ------------------------------------------------------------- caller thread
\* download() is probing, downloading (segments or single stream) or merging.
InTransfer ==
    pc \in {"probe", "spawn", "wait", "fb_request", "fb_open", "fb_iter",
            "fb_check", "fb_write", "merge_start", "merge_copy",
            "merge_verify"}

\* Line 72: cancel() called from outside, at any time and any number of
\* times, tests the event.
UCancel ==
    /\ upc = "idle"
    /\ upc' = IF CancelGuard THEN "cancel_set" ELSE "idle"
    /\ hist' = [hist EXCEPT !.user_called = TRUE]
    /\ UNCHANGED << num_connections, total_size, downloaded, error,
                    cancel_event, connection_type, part_files, threads, pc,
                    success, supports_ranges, expected_final_size, segments,
                    active_threads, cleanup_success, cleanup_ret, body_left,
                    wpc, current_try, written, chunk, temp_dir, part,
                    output_exists, output_size, output_parts, status_log,
                    final_status, final_error, final_progress, final_speed,
                    final_url, lock, loaded, faults >>

\* Lines 73-74 in the caller's cancel(): set the event.
UCancelSet ==
    /\ upc = "cancel_set"
    /\ cancel_event' = TRUE
    /\ upc' = "cancel_record"
    /\ hist' = [hist EXCEPT
                  !.user_cancel_mid = @ \/ (~cancel_event /\ hist.wrote_bytes
                                            /\ InTransfer)]
    /\ UNCHANGED << num_connections, total_size, downloaded, error,
                    connection_type, part_files, threads, pc, success,
                    supports_ranges, expected_final_size, segments,
                    active_threads, cleanup_success, cleanup_ret, body_left,
                    wpc, current_try, written, chunk, temp_dir, part,
                    output_exists, output_size, output_parts, status_log,
                    final_status, final_error, final_progress, final_speed,
                    final_url, lock, loaded, faults >>

\* Lines 75-78 in the caller's cancel().
UCancelRecord ==
    /\ upc = "cancel_record"
    /\ CancelRecord
    /\ upc' = "idle"
    /\ UNCHANGED << num_connections, total_size, downloaded, cancel_event,
                    connection_type, part_files, threads, pc, success,
                    supports_ranges, expected_final_size, segments,
                    active_threads, cleanup_success, cleanup_ret, body_left,
                    wpc, current_try, written, chunk, temp_dir, part,
                    output_exists, output_size, output_parts, final_status,
                    final_error, final_progress, final_speed, final_url,
                    lock, loaded, faults >>

\* --------------------------------------------------------------------- spec
\* The steps of download() once entered.
Advance ==
    \/ PreCheck \/ Probe \/ Decide \/ MakeTempDir \/ Plan \/ Spawn
    \/ Wait \/ PostCheck \/ MergeCheck \/ MergeStart \/ MergeCopy
    \/ MergeVerify \/ FallbackStart \/ FallbackRequest \/ FallbackOpen
    \/ FallbackIter \/ FallbackCheck \/ FallbackWrite \/ CleanupScan
    \/ CleanupRmdir \/ CleanupOutput \/ Final

Orchestrator == Start \/ Advance

Worker(i) ==
    \/ WLoop(i) \/ WRequest(i) \/ WOpen(i) \/ WIter(i) \/ WCheck(i)
    \/ WWrite(i) \/ WCancel(i) \/ WCancelSet(i) \/ WCancelRecord(i)

Next ==
    \/ Orchestrator
    \/ \E i \in Segs : Worker(i)
    \/ UCancel
    \/ UCancelSet
    \/ UCancelRecord

Spec == Init /\ [][Next]_vars

\* ------------------------------------------------- one call, fair scheduling
\* A fresh job with nothing on disk.
LiveInit == Init /\ ~temp_dir /\ ~output_exists

\* download() called on the fresh job.
FirstCall == pc = "notstarted" /\ Start

LiveNext ==
    \/ FirstCall
    \/ Advance
    \/ \E i \in Segs : Worker(i)
    \/ UCancel
    \/ UCancelSet
    \/ UCancelRecord

\* A step of one of the job's threads: the orchestrator or a worker.
ThreadStep == Advance \/ \E i \in Segs : Worker(i)

\* Threads are scheduled and every network call returns: as long as some
\* thread of the job has a next step, one of them takes its step. (Fairness
\* to each thread separately guarantees this and more.) The caller is free
\* to call cancel() or not.
FairSpec ==
    /\ LiveInit
    /\ [][LiveNext]_vars
    /\ WF_vars(ThreadStep)

\* Only the orchestrator thread is sure to take its next step: a worker may
\* stay for ever where it is, inside a network call that does not return.
OrchestratorFairSpec ==
    /\ LiveInit
    /\ [][LiveNext]_vars
    /\ WF_vars(Advance)

\* ------------------------------------------ _update_progress() under threads
\* A multi-connection job whose MaxConn threads have each opened their part
\* file, the orchestrator waiting.
ProgressInit ==
    /\ num_connections = MaxConn
    /\ total_size = Threshold + 2
    /\ downloaded = 0
    /\ error = None
    /\ cancel_event = FALSE
    /\ connection_type = "Multi"
    /\ segments = PlanSegments(total_size, num_connections)
    /\ part_files = [k \in 1 .. Len(segments) |-> segments[k][1]]
    /\ threads = Segs
    /\ pc = "wait"
    /\ success = FALSE
    /\ supports_ranges = TRUE
    /\ expected_final_size = total_size
    /\ active_threads = Segs
    /\ cleanup_success = FALSE
    /\ cleanup_ret = "final"
    /\ body_left = 0
    /\ wpc = [i \in Segs |-> "iter"]
    /\ current_try = [i \in Segs |-> 0]
    /\ written = [i \in Segs |-> 0]
    /\ chunk = [i \in Segs |-> 0]
    /\ upc = "idle"
    /\ temp_dir = TRUE
    /\ part = [i \in Segs |-> 0]
    /\ output_exists = FALSE
    /\ output_size = 0
    /\ output_parts = << >>
    /\ status_log = << >>
    /\ final_status = None
    /\ final_error = None
    /\ final_progress = -1
    /\ final_speed = -1
    /\ final_url = "response_url"
    /\ lock = -1
    /\ loaded = [i \in Segs |-> 0]
    /\ faults = 0
    /\ hist = [Hist0 EXCEPT !.mode_sets = 1,
                            !.requests = [i \in Segs |-> 1]]

\* A worker streaming its segment, _update_progress taken step by step.
ProgressWorker(i) ==
    \/ WIter(i) \/ WCheck(i) \/ WWriteFile(i) \/ UpdateLock(i)
    \/ UpdateLoad(i) \/ UpdateStore(i) \/ UpdateNotify(i)

ProgressNext == \E i \in Segs : ProgressWorker(i)

ProgressSpec == ProgressInit /\ [][ProgressNext]_vars

\* =================================================================== claims
AllSegments == { segments[k][1] : k \in 1 .. Len(segments) }
Returned == pc = "returned"
MultiJob == connection_type = "Multi" /\ segments # << >>
Merging == pc \in {"merge_start", "merge_copy", "merge_verify"}
Attempting(i) == wpc[i] \in {"request", "open", "iter", "check", "write"}

\* C1: a multi-connection job in which exactly one segment used up its three
\* attempts, and cancel() was never called from outside, ends with final
\* status failed, no output file and no temp directory.
C1_OneExhaustedSegmentEndsFailed ==
    (/\ Returned
     /\ MultiJob
     /\ threads = AllSegments
     /\ ~hist.user_called
     /\ Cardinality({ i \in Segs : hist.exhausted[i] }) = 1)
    => (final_status = "failed" /\ ~output_exists /\ ~temp_dir)

\* C2: a cancel() that sets the signal after bytes were written, while
\* download() is probing, downloading or merging, makes the final status
\* cancelled and leaves neither the output file nor the temp directory.
C2_CancelAfterBytesEndsCancelled ==
    (Returned /\ hist.user_cancel_mid)
    => (final_status = "cancelled" /\ ~output_exists /\ ~temp_dir)

\* C3: a run of download() sends the manager exactly one notification that
\* carries a terminal status.
C3_ExactlyOneTerminalStatus ==
    Returned => hist.sent_running = 1

C5_TempDirRemovedOnReturn ==
    Returned => ~temp_dir

\* C6: when one segment alone had failed attempts, one of them after bytes
\* were received, and every segment then succeeded with no cancellation,
\* the job merges and ends completed.
C6_RetriedSegmentEndsCompleted ==
    (/\ Returned
     /\ MultiJob
     /\ hist.failed_with_bytes
     /\ Cardinality({ i \in Segs : current_try[i] > 0 }) = 1
     /\ \A i \in AllSegments : hist.seg_ok[i]
     /\ ~cancel_event)
    => (hist.merge_called /\ final_status = "completed")

\* C7: when a worker recorded its segment-failure error and its cancel() then
\* set the signal, with no cancel() from outside, the final status reports
\* that segment-failure error.
C7_SegmentErrorSurvivesCancel ==
    (/\ Returned
     /\ ~hist.user_called
     /\ \E i \in Segs : hist.exhausted[i] /\ hist.worker_set[i])
    => final_error = "SegmentFailed"

\* C8: merge_parts is entered only from a state with no error recorded, no
\* cancellation and the downloaded count equal to the expected total; a
\* multi-connection job that does not merge never opens the output file and
\* ends failed or cancelled.
C8_MergeOnlyWhenClean ==
    /\ [][(pc # "merge_start" /\ pc' = "merge_start")
          => (/\ error = None
              /\ ~cancel_event
              /\ downloaded = expected_final_size)]_vars
    /\ []((MultiJob /\ ~hist.merge_called)
          => (/\ ~hist.output_opened
              /\ (Returned => final_status \in {"failed", "cancelled"})))

\* C8 witness: every worker ended, the byte count was off, and the job ended
\* without merging.
C8_Witness ==
    /\ Returned
    /\ final_error = "MultiSizeMismatch"
    /\ ~hist.merge_called
    /\ ~hist.output_opened

\* C9: while merge_parts runs, no segment worker thread is alive.
C9_MergeAfterWorkersEnded ==
    Merging => \A i \in Segs : ~IsAlive(i)

\* C9 witness: the merge is copying the second part of a job whose two
\* workers ran and ended.
C9_Witness ==
    /\ pc = "merge_copy"
    /\ Len(output_parts) = 1
    /\ \A i \in AllSegments : hist.seg_ok[i]

\* C10: a worker whose request was answered 416 makes no further attempt and
\* ends with the cancellation signal set.
C10_RangeNotSatisfiableNotRetried ==
    \A i \in Segs :
        hist.saw416[i]
        => (~Attempting(i) /\ (wpc[i] = "done" => cancel_event))

\* download() has chosen its strategy for the running call, or has returned.
Decided ==
    /\ pc \notin {"notstarted", "precheck", "probe", "decide"}
    /\ ~(pc \in {"cleanup_scan", "cleanup_rmdir", "cleanup_output"}
         /\ cleanup_ret = "probe")

\* C11: once the probe has reported no range support, no segment worker is
\* started, download() takes none of the multi-connection steps, and from the
\* start of fallback_download on the connection mode is Single, whatever the
\* connection count and the size.
C11_NoRangesMeansSingle ==
    (Decided /\ ~supports_ranges)
    => (/\ \A i \in Segs : wpc[i] = "idle"
        /\ pc \notin {"mkdir", "plan", "spawn", "wait", "post", "merge_check",
                      "merge_start", "merge_copy", "merge_verify"}
        /\ (pc # "fallback" => connection_type = "Single"))

\* C11 witness: two connections asked for a file above the threshold, no
\* range support, and the job completed as a single stream.
C11_Witness ==
    /\ Returned
    /\ ~supports_ranges
    /\ num_connections = 2
    /\ total_size = Threshold + 2
    /\ connection_type = "Single"
    /\ final_status = "completed"

\* C12: the step that chooses the strategy goes to the multi-connection path
\* exactly when range support was detected, more than one connection was
\* asked for, the size is known and the size is above 10 MiB, and to the
\* single stream otherwise; a job of 2 MiB or of exactly 10 MiB never has
\* connection mode Multi.
C12_MultiIffAllFour ==
    /\ [][(pc = "decide" /\ pc' # "decide")
          => /\ pc' \in {"mkdir", "fallback"}
             /\ (pc' = "mkdir"
                 <=> (/\ supports_ranges
                      /\ num_connections > 1
                      /\ total_size > 0
                      /\ total_size > 10 * 1024 * 1024))]_vars
    /\ [](total_size \in {2 * 1024 * 1024, 10 * 1024 * 1024}
          => connection_type # "Multi")

\* C12 witness: a file of exactly the threshold size on a range-capable
\* server with two connections completed in mode Single.
C12_Witness ==
    /\ Returned
    /\ supports_ranges
    /\ num_connections = 2
    /\ total_size = 10 * 1024 * 1024
    /\ connection_type = "Single"
    /\ final_status = "completed"

\* ---------------------------------------------------- planner specification
\* The planner (lines 454-476) run on its own: download() stands at line 454
\* with a size above the threshold and a connection count of at least 2,
\* in one case a count larger than the number of bytes.
PlanTotals == { Threshold + k : k \in 1 .. MaxPlanExtra }

ManyConnections == Threshold + MaxPlanExtra + 1

PlanInputs ==
    ((PlanTotals \cup {50 * MiB}) \X (2 .. MaxPlanConn))
    \cup (PlanTotals \X {ManyConnections})

PlanInit ==
    /\ \E in \in PlanInputs :
         /\ total_size = in[1]
         /\ num_connections = in[2]
    /\ downloaded = 0
    /\ error = None
    /\ cancel_event = FALSE
    /\ connection_type = "Multi"
    /\ part_files = << >>
    /\ threads = {}
    /\ pc = "plan"
    /\ success = FALSE
    /\ supports_ranges = TRUE
    /\ expected_final_size = total_size
    /\ segments = << >>
    /\ active_threads = {}
    /\ cleanup_success = FALSE
    /\ cleanup_ret = "final"
    /\ body_left = 0
    /\ wpc = [i \in Segs |-> "idle"]
    /\ current_try = [i \in Segs |-> 0]
    /\ written = [i \in Segs |-> 0]
    /\ chunk = [i \in Segs |-> 0]
    /\ upc = "idle"
    /\ temp_dir = TRUE
    /\ part = [i \in Segs |-> -1]
    /\ output_exists = FALSE
    /\ output_size = 0
    /\ output_parts = << >>
    /\ status_log = << >>
    /\ final_status = None
    /\ final_error = None
    /\ final_progress = -1
    /\ final_speed = -1
    /\ final_url = "response_url"
    /\ lock = -1
    /\ loaded = [i \in Segs |-> 0]
    /\ faults = 0
    /\ hist = [Hist0 EXCEPT !.mode_sets = 1]

PlanNext == Plan

PlanSpec == PlanInit /\ [][PlanNext]_vars

\* Planning has run.
Planned == segments # << >> \/ error = "NoSegments"

\* Length of the k-th planned segment.
SegLen(k) == (segments[k][3] - segments[k][2]) + 1

RECURSIVE SumLen(_)
SumLen(k) == IF k = 0 THEN 0 ELSE SegLen(k) + SumLen(k - 1)

\* C13: the planned segments start at byte 0, each starts one byte after the
\* end of the one before, none is empty, their lengths sum to the total size
\* and the last ends at total - 1.
C13_SegmentsPartitionTotal ==
    segments # << >>
    => (/\ segments[1][2] = 0
        /\ \A k \in 2 .. Len(segments) :
               segments[k][2] = segments[k - 1][3] + 1
        /\ \A k \in 1 .. Len(segments) : segments[k][2] <= segments[k][3]
        /\ SumLen(Len(segments)) = total_size
        /\ segments[Len(segments)][3] = total_size - 1)

\* C13 witness: three segments planned for a size three does not divide, the
\* last one longer than the first.
C13_Witness ==
    /\ Len(segments) = 3
    /\ num_connections = 3
    /\ SegLen(3) > SegLen(1)

\* C14 as stated: planning T bytes for C connections yields exactly C
\* segments, the first C-1 of floor(T/C) bytes and the last of
\* T - (C-1)*floor(T/C) bytes.
C14_ExactlyCSegments ==
    Planned
    => (/\ Len(segments) = num_connections
        /\ \A k \in 1 .. (Len(segments) - 1) :
               SegLen(k) = total_size \div num_connections
        /\ SegLen(Len(segments))
             = total_size
               - (num_connections - 1) * (total_size \div num_connections))

\* C14 amended: the same when there are no more connections than bytes; 50 MiB
\* for 4 connections gives four segments of 13107200 bytes.
C14_CSegmentsWhenEnoughBytes ==
    (Planned /\ num_connections <= total_size)
    => (/\ Len(segments) = num_connections
        /\ \A k \in 1 .. (Len(segments) - 1) :
               SegLen(k) = total_size \div num_connections
        /\ SegLen(Len(segments))
             = total_size
               - (num_connections - 1) * (total_size \div num_connections)
        /\ (total_size = 50 * 1024 * 1024 /\ num_connections = 4
            => \A k \in 1 .. 4 : SegLen(k) = 13107200))

\* C14 witness: 50 MiB planned for 4 connections.
C14_Witness ==
    /\ total_size = 50 * 1024 * 1024
    /\ num_connections = 4
    /\ Len(segments) = 4
    /\ SegLen(4) = 13107200

C16_MergedInAscendingOrder ==
    /\ \A k \in 1 .. Len(output_parts) :
           k <= Len(segments) /\ output_parts[k] = k - 1
    /\ (MultiJob /\ (pc = "merge_verify"
                     \/ (Returned /\ final_status = "completed")))
       => output_parts = [k \in 1 .. Len(segments) |-> k - 1]

\* C16 witness: worker 1 finished before worker 0 and the merge has copied
\* part 0, then part 1.
C16_Witness ==
    /\ pc = "merge_verify"
    /\ hist.first_ok = 1
    /\ output_parts = << 0, 1 >>

\* C17: a segment worker issues at most 3 requests; the step that counts its
\* third failed attempt records the segment error and sends the worker into
\* cancel(), and a worker with three failed attempts makes no further
\* attempt and ends with the cancellation signal set.
C17_AtMostThreeAttempts ==
    /\ [](\A i \in Segs :
            /\ hist.requests[i] <= 3
            /\ (current_try[i] >= 3
                => /\ wpc[i] \in {"cancel", "cancel_set", "cancel_record",
                                 "done"}
                   /\ (wpc[i] \in {"cancel_record", "done"} => cancel_event)))
    /\ [][\A i \in Segs :
            (current_try[i] = 2 /\ current_try'[i] = 3)
            => (error' = "SegmentFailed" /\ wpc'[i] = "cancel")]_vars

\* C17 witness: a worker made three requests, all failed, and has ended
\* after its own cancel() set the signal.
C17_Witness ==
    \E i \in Segs :
        /\ hist.requests[i] = 3
        /\ current_try[i] = 3
        /\ hist.worker_set[i]
        /\ wpc[i] = "done"

\* C18: while the cancellation signal is set no worker starts a request
\* attempt and no worker passes the check before a chunk write, so that a
\* worker writes at most the chunk whose check it had passed already; a
\* worker that ended stays ended.
C18_NoNewWorkAfterCancel ==
    [][\A i \in Segs :
         /\ (cancel_event /\ wpc'[i] = "request") => wpc[i] = "request"
         /\ (cancel_event /\ wpc'[i] = "write") => wpc[i] = "write"
         /\ (wpc[i] = "write" /\ written'[i] # written[i])
            => wpc'[i] \notin {"write", "check"}
         /\ (cancel_event /\ wpc[i] = "done") => wpc'[i] \in {"done", "idle"}
      ]_vars

\* C18 witness: with the signal set, a worker that had written part of its
\* segment has ended without finishing it and without a failed attempt.
C18_Witness ==
    \E i \in Segs :
        /\ cancel_event
        /\ wpc[i] = "done"
        /\ ~hist.seg_ok[i]
        /\ current_try[i] = 0
        /\ written[i] > 0
        /\ written[i] < ExpectedSize(i)

\* C19: a final notification with status failed or cancelled carries an
\* error.
C19_ErrorWithFailedOrCancelled ==
    (Returned /\ final_status \in {"failed", "cancelled"})
    => final_error # None

\* C20: a step never takes the cancellation signal from set to unset, a step
\* that enters download() again included.
C20_CancelEventMonotonic ==
    [][cancel_event => cancel_event']_vars

\* C20 witness: download() has been entered again on an object whose earlier
\* call chose a connection mode, and the signal is still set.
C20_Witness ==
    /\ pc = "precheck"
    /\ connection_type # "N/A"
    /\ cancel_event

\* C21: under FairSpec (as long as a thread of the job can take a step one
\* of them does, every network call returns, cancel() is called at any
\* time or never) every call of download() that was entered returns, having
\* sent the final notification; it returns only from the final notification
\* and reaches that only out of the cleanup of its finally block.
C21_DownloadTerminates ==
    /\ (pc = "precheck") ~> (Returned /\ final_status # None)
    /\ [][/\ (pc # "final" /\ pc' = "final")
             => (pc = "cleanup_output" /\ cleanup_ret = "final")
          /\ (pc # "returned" /\ pc' = "returned")
             => (pc = "final" /\ final_status' # None)]_vars

\* C21 witness: download() has returned from a run in which one worker used
\* up its attempts, another finished its segment and cancel() was called
\* from outside.
C21_Witness ==
    /\ Returned
    /\ final_status # None
    /\ hist.user_called
    /\ \E i, j \in Segs : hist.exhausted[i] /\ hist.seg_ok[j]

\* C22: under OrchestratorFairSpec (only the orchestrator is sure to run; a
\* worker may stay inside a network call for ever) a cancellation that is
\* set while the orchestrator is in its wait loop and some worker is alive
\* leads to download() returning with its final status sent; and once the
\* cancellation is set the wait loop does no further round: the
\* orchestrator's next step leaves it.
C22_WaitLeavesOnCancel ==
    /\ (pc = "wait" /\ cancel_event /\ \E i \in Segs : IsAlive(i))
         ~> (Returned /\ final_status # None)
    /\ [][(pc = "wait" /\ cancel_event)
           => \/ pc' = "post"
              \/ pc' = "wait" /\ active_threads' = active_threads]_vars

\* C22 witness: download() has returned with status cancelled after a
\* cancel() from outside, while a worker is still inside its range request.
C22_Witness ==
    /\ Returned
    /\ final_status = "cancelled"
    /\ hist.user_called
    /\ \E i \in Segs : wpc[i] = "request"

\* The threads that have called _update_progress and not yet stored their
\* sum.
Adding == { i \in Segs : wpc[i] \in {"update_lock", "update_load",
                                     "update_store"} }

\* The chunk lengths the threads of set s are adding, summed.
RECURSIVE PendingBytes(_)
PendingBytes(s) ==
    IF s = {} THEN 0
    ELSE LET i == CHOOSE x \in s : TRUE
         IN chunk[i] + PendingBytes(s \ {i})

\* C23: under ProgressSpec (the threads of a multi-connection job calling
\* _update_progress in every interleaving, the += taken as a read and a
\* write) the downloaded counter plus the chunk lengths of the calls that
\* have not stored yet equals the sum of all chunk lengths passed since the
\* reset: no update is lost.
C23_NoLostUpdate ==
    downloaded + PendingBytes(Adding) = hist.passed

\* C23 witness: a thread is between the read and the write of its += while
\* another thread, which has called _update_progress, waits for the lock,
\* and earlier calls of both have completed.
C23_Witness ==
    \E i, j \in Segs :
        /\ i # j
        /\ wpc[i] = "update_store"
        /\ wpc[j] = "update_lock"
        /\ written[i] > chunk[i]
        /\ written[j] > chunk[j]

\* C28: while the notification call one thread makes to the manager has not
\* returned, a thread that has called _update_progress to add its bytes can
\* take the lock and go on.
C28_AddBytesDoesNotWaitForManager ==
    \A i, j \in Segs :
        (wpc[i] = "update_notify" /\ wpc[j] = "update_lock") => LockFree

\* downloaded / total * 100 in whole percent.
PercentOf(d, t) == (d \div t) * 100 + ((d % t) * 100) \div t

\* C24: the step that sends the final notification sends progress 100 with
\* status completed, and otherwise the percentage of the total downloaded so
\* far, at most 100, or 0 when the total is unknown; it sends speed 0 and
\* the error recorded at that moment (None when there is none).
C24_FinalNotification ==
    [][(pc = "final" /\ pc' = "returned")
       => /\ final_status' = "completed" => final_progress' = 100
          /\ (final_status' # "completed" /\ total_size > 0)
             => final_progress' = Min(100, PercentOf(downloaded, total_size))
          /\ (final_status' # "completed" /\ total_size <= 0)
             => final_progress' = 0
          /\ final_speed' = 0
          /\ final_error' = error]_vars

\* C24 witness: a final notification other than completed was sent with an
\* error, at a moment when more bytes than the total had been counted, and
\* carried progress 100.
C24_Witness ==
    /\ Returned
    /\ final_status # "completed"
    /\ final_error # None
    /\ final_progress = 100
    /\ upc = "idle"
    /\ \A i \in Segs : ~IsAlive(i)
    /\ downloaded > total_size

\* The probe of this call of download() has failed: it returned the original
\* URL. (A probe that is answered returns the URL of the response.)
ProbeHasFailed == final_url = "initial_url"

\* C25: the probe always hands control back to download(); a failed probe
\* returns no range support, download() then takes the single-stream
\* fallback and never the multi-connection path, and when the fallback
\* returns success after a failed probe the final status is completed.
C25_ProbeFailureFallsBack ==
    /\ [][/\ (pc = "probe" /\ pc' # "probe") => pc' = "decide"
          /\ (pc = "probe" /\ final_url' = "initial_url")
             => ~supports_ranges'
          /\ (pc = "decide" /\ pc' # "decide" /\ ProbeHasFailed)
             => pc' = "fallback"]_vars
    /\ [](ProbeHasFailed => pc \notin {"mkdir", "plan", "spawn", "wait"})
    /\ []((Returned /\ ProbeHasFailed /\ hist.fallback_result = "True")
          => final_status = "completed")

\* C25 witness: the probe timed out, the single-stream download went
\* through, and download() returned with status completed.
C25_Witness ==
    /\ Returned
    /\ ProbeHasFailed
    /\ final_error = "HeadTimeout"
    /\ hist.fallback_result = "True"
    /\ final_status = "completed"
    /\ output_exists

\* C26: within one call of download() the connection mode is assigned exactly
\* once, to Single or Multi: at most once at any moment, once when the call
\* has returned, the value changes only by the first assignment of a call,
\* and it is N/A only before that assignment (on an object that is used
\* again the mode of the earlier call stays until the assignment).
C26_ModeSetOnce ==
    /\ [](hist.mode_sets <= 1)
    /\ [](Returned => (hist.mode_sets = 1
                       /\ connection_type \in {"Single", "Multi"}))
    /\ [](connection_type = "N/A" => hist.mode_sets = 0)
    /\ [][connection_type' # connection_type
          => (/\ hist.mode_sets = 0
              /\ hist'.mode_sets = 1
              /\ connection_type' \in {"Single", "Multi"})]_vars

\* C26 witness: a multi-connection job has planned its segments, run its
\* workers, merged and returned, and the mode was assigned once.
C26_Witness ==
    /\ Returned
    /\ connection_type = "Multi"
    /\ final_status = "completed"
    /\ hist.mode_sets = 1
    /\ Len(segments) = MaxConn

\* C27: a call of download() issues the single-stream GET at most once, and
\* exactly once when it returns in single-stream mode; its final status is
\* completed exactly when fallback_download returned True, and when
\* fallback_download returned False the final notification is sent with
\* status cancelled if the cancellation is set at that moment and failed
\* otherwise.
C27_SingleStreamOneRequest ==
    /\ [](hist.gets <= 1)
    /\ []((Returned /\ connection_type = "Single")
          => /\ hist.gets = 1
             /\ hist.fallback_result \in {"True", "False"}
             /\ final_status = "completed"
                <=> hist.fallback_result = "True")
    /\ [][(pc = "final" /\ pc' = "returned"
           /\ hist.fallback_result = "False")
          => final_status' = IF cancel_event THEN "cancelled"
                             ELSE "failed"]_vars

\* C27 witness: the single stream broke after bytes had been written;
\* download() returned failed after its one GET.
C27_Witness ==
    /\ Returned
    /\ connection_type = "Single"
    /\ hist.gets = 1
    /\ hist.wrote_bytes
    /\ hist.fallback_result = "False"
    /\ final_error = "FallbackRequest"
    /\ final_status = "failed"

\* C29: a worker leaves its chunk loop as finished only when the bytes it
\* wrote in the attempt equal end_byte - start_byte + 1, and a worker that
\* finished its segment holds exactly that many; when the body ends with
\* another count, shorter or longer, the attempt is counted as failed and
\* the worker goes back to try again, or gives up if that was its third.
C29_SegmentSizeVerified ==
    /\ [](\A i \in Segs : hist.seg_ok[i] => written[i] = ExpectedSize(i))
    /\ [][\A i \in Segs :
            /\ (wpc[i] = "iter" /\ wpc'[i] = "done")
               => (written[i] = ExpectedSize(i) /\ hist'.seg_ok[i])
            /\ (wpc[i] = "iter" /\ wpc'[i] \notin {"iter", "check"}
                /\ written[i] # ExpectedSize(i))
               => /\ current_try'[i] = current_try[i] + 1
                  /\ ~hist'.seg_ok[i]
                  /\ wpc'[i] = IF current_try'[i] < retries THEN "loop"
                               ELSE "cancel"]_vars

\* C29 witness: a worker whose first attempt received more bytes than its
\* range has counted the attempt as failed and is back at the head of its
\* loop with attempts left.
C29_Witness ==
    \E i \in Segs :
        /\ wpc[i] = "loop"
        /\ current_try[i] = 1
        /\ written[i] > ExpectedSize(i)
        /\ ~cancel_event

\* The worker is ending abnormally: it has given up, or caught an unexpected
\* exception, and is inside the cancel() it calls before it returns.
EndingAbnormally(i) == wpc[i] \in {"cancel", "cancel_set", "cancel_record"}

\* C30: a worker that gives up (attempts used up, or the branch for a
\* response not worth retrying) or catches an unexpected exception has a job
\* error recorded from that step on, and when its thread ends the error is
\* still there and the cancellation is set; every failure inside an attempt
\* (request, open of the part file, stream, size check) lands in a handler,
\* back at the loop or giving up, and nowhere else.
C30_AbnormalEndRecorded ==
    /\ [](\A i \in Segs :
            /\ EndingAbnormally(i) => error # None
            /\ wpc[i] = "cancel_record" => cancel_event)
    /\ [][\A i \in Segs :
            /\ (EndingAbnormally(i) /\ wpc'[i] = "done")
               => (error' # None /\ cancel_event')
            /\ (hist'.exhausted[i] /\ ~hist.exhausted[i])
               => wpc'[i] = "cancel"
            /\ (wpc[i] \in {"request", "open", "iter"}
                /\ wpc'[i] \notin {"request", "open", "iter", "check",
                                    "done", "idle"})
               => wpc'[i] \in {"loop", "cancel"}]_vars

\* C30 witness: a worker whose part file could not be opened, the temp
\* directory being gone, recorded the critical error and ended; the
\* cancellation is set.
C30_Witness ==
    \E i \in Segs :
        /\ wpc[i] = "done"
        /\ error = "SegmentCritical"
        /\ part[i] = -1
        /\ cancel_event

\* C31 as stated: when floor(total_size / num_connections) is 0, planning
\* yields no segments and download() goes on to the single-stream download.
C31_EmptySegmentMeansNoSegments ==
    (Planned /\ total_size \div num_connections = 0)
    => (segments = << >> /\ pc = "fallback")

\* C31 amended: when floor(total_size / num_connections) is 0 the segment size
\* is the total size: planning yields the one segment from byte 0 to byte
\* total_size - 1 and download() goes on to start its worker, with no error
\* recorded; planning yields segments for every input, and download() goes on
\* to the single-stream download exactly when it yields none.
C31_EmptySegmentMeansOneSegment ==
    /\ (Planned /\ total_size \div num_connections = 0)
       => (/\ segments = << <<0, 0, total_size - 1>> >>
           /\ pc = "spawn"
           /\ error = None)
    /\ Planned => (segments # << >> /\ pc = "spawn")
    /\ pc = "fallback" <=> (Planned /\ segments = << >>)

\* C31 witness: more connections than bytes, one segment planned, the worker
\* threads about to be started.
C31_Witness ==
    /\ num_connections > total_size
    /\ Len(segments) = 1
    /\ segments[1][3] = total_size - 1
    /\ pc = "spawn"

\* C32: a total size that is known (above 0) stays as it is through every
\* step, also into a later call of download(); the total size changes only in
\* the probe and in the fallback GET, only while it is unknown, and then to
\* the positive length the server has just reported.
C32_KnownSizeNotOverwritten ==
    [][/\ total_size > 0 => total_size' = total_size
       /\ total_size' # total_size
          => (/\ pc \in {"probe", "fb_request"}
              /\ total_size <= 0
              /\ total_size' > 0
              /\ total_size' = hist'.reported)]_vars

\* C32 witness: the fallback GET has reported a length other than the total
\* size known before it, and the total size is still that of the caller.
C32_Witness ==
    /\ pc = "fb_open"
    /\ hist.reported = 2 * MiB
    /\ total_size = Threshold + 2
    /\ final_url = "initial_url"

\* The current call of download() has set the mode, and to single stream.
SingleJob == connection_type = "Single" /\ hist.mode_sets >= 1

\* C33: while the job's mode is Single there is no temp directory and no part
\* file, no segment worker is running and none has made a request; and no
\* step that ends in Single mode creates the temp directory or a part file or
\* starts a worker. The total size may have become known in the fallback GET.
C33_SingleJobHasNoParts ==
    /\ [](SingleJob
          => (/\ ~temp_dir
              /\ \A i \in Segs : /\ part[i] = -1
                                 /\ ~IsAlive(i)
                                 /\ hist.requests[i] = 0))
    /\ [][connection_type' = "Single"
          => (/\ temp_dir' => temp_dir
              /\ \A i \in Segs :
                   /\ part'[i] # -1 => part[i] # -1
                   /\ wpc'[i] \notin {"idle", "done"}
                      => wpc[i] \notin {"idle", "done"})]_vars

\* C33 witness: a single-stream job streaming its body, for a server that
\* supports ranges and a job asking for 2 connections: the total size, above
\* the threshold, was learned from the fallback GET.
C33_Witness ==
    /\ SingleJob
    /\ pc = "fb_write"
    /\ supports_ranges
    /\ num_connections = 2
    /\ total_size = Threshold + 2
    /\ downloaded > 0

\* C34: in a multi-connection job the downloaded-byte counter is never above
\* the total size.
C34_DownloadedWithinTotal ==
    MultiJob => downloaded <= total_size

\* C35: a final notification with status completed carries no error.
C35_CompletedCarriesNoError ==
    final_status = "completed" => final_error = None

\* C36: a job whose total size is known ends completed only with as many
\* bytes downloaded as the total size.
C36_CompletedMeansAllBytes ==
    (final_status = "completed" /\ total_size > 0)
    => downloaded = total_size

\* C37: once download() has sent the final notification and returned, and
\* until it is called again, the manager is sent no further status, the
\* recorded error does not change, and no worker calls _update_progress (which
\* notifies the manager of progress and speed whenever an update is due).
C37_FinalNotificationIsLast ==
    [][(Returned /\ pc' = "returned")
       => (/\ status_log' = status_log
           /\ error' = error
           /\ downloaded' = downloaded)]_vars

\* C38: while _cleanup_temp runs, when the final notification is sent and
\* once download() has returned, no segment worker thread is alive.
C38_WorkersEndedBeforeCleanup ==
    pc \in {"cleanup_scan", "cleanup_rmdir", "cleanup_output", "final",
            "returned"}
    => \A i \in Segs : ~IsAlive(i)

\* Number of cancelled notifications the manager has received since
\* download() was entered.
CancelledSent == Cardinality({ k \in 1 .. Len(status_log) :
                                 status_log[k] = "cancelled" })

\* C39: while download() runs, the calls of cancel() have between them
\* assigned the error and sent the cancelled notification at most once.
C39_CancelTakesEffectOnce ==
    Running => CancelledSent <= 1

\* The job did not fall back and started no worker: the mode is Multi, set
\* once, no GET was issued, no thread was started and no segment requested.
NeitherWorkersNorFallback ==
    /\ connection_type = "Multi"
    /\ hist.mode_sets = 1
    /\ hist.gets = 0
    /\ hist.fallback_result = None
    /\ segments = << >>
    /\ \A i \in Segs : wpc[i] = "idle" /\ hist.requests[i] = 0

\* C40 as stated: a call of download() whose temp directory could not be
\* created has started no worker and not fallen back, and ends with status
\* failed, an error and the mode Multi.
C40_TempDirFailureEndsFailed ==
    hist.mkdir_failed
    => (/\ NeitherWorkersNorFallback
        /\ Returned => (/\ final_status = "failed"
                        /\ final_error # None))

\* C40 amended: the same, except that the final status is cancelled when the
\* cancellation signal is set by the time it is sent, and failed otherwise;
\* the error is recorded from the failure on and is not None at the end.
C40_TempDirFailureEndsFailedOrCancelled ==
    /\ [](hist.mkdir_failed
          => (/\ NeitherWorkersNorFallback
              /\ error # None
              /\ ~success
              /\ Returned => (/\ final_status \in {"failed", "cancelled"}
                              /\ final_status = "cancelled" => cancel_event
                              /\ final_error # None)))
    /\ [][(hist.mkdir_failed /\ pc = "final" /\ pc' = "returned")
          => final_status' = (IF cancel_event THEN "cancelled"
                              ELSE "failed")]_vars
    /\ [][(pc = "mkdir" /\ pc' \notin {"mkdir", "plan"})
          => (hist'.mkdir_failed /\ pc' = "cleanup_scan"
              /\ cleanup_ret' = "final")]_vars

\* C40 witness: the temp directory could not be created, nobody cancelled,
\* and download() has returned with status failed and the error of the
\* failure, in mode Multi.
C40_Witness ==
    /\ hist.mkdir_failed
    /\ Returned
    /\ ~cancel_event
    /\ final_status = "failed"
    /\ final_error = "TempDirFailed"
    /\ connection_type = "Multi"

====
